---- MODULE Spec2Model ----
(***************************************************************************)
(* Path lowering of crates/ra_hir_def/src/path.rs: Path::from_src walks a  *)
(* syntax path leaf-to-root, GenericArgs::from_ast and                     *)
(* GenericArgs::from_fn_like_path_ast collect the generic arguments of one *)
(* segment.                                                                *)
(*                                                                         *)
(* The syntax tree is the input.  It is revealed node by node, at the      *)
(* moment the walk first reads a node (nodes, groups), and kept, so that a *)
(* node read twice is the same node.  Option<T> is a sequence of length 0  *)
(* or 1.                                                                   *)
(***************************************************************************)
EXTENDS Integers, Sequences, FiniteSets, TLC

\* Largest number of path nodes in a syntax tree.
MaxNodes == 4
\* Largest number of parameters of a function-sugar parameter list.
MaxParams == 2
\* Number of distinct type syntax nodes used as parameter / return types.
MaxType == 2

VARIABLES
    nodes,      \* the path nodes of the syntax tree, by node id
    groups,     \* per use level: path of the use tree owning the nearest list
    hygiene,    \* the Hygiene passed to from_src: Option<CrateId>
    stack,      \* the active calls of from_src, innermost last
    ret,        \* value handed back by a recursive call, not yet consumed
    outcome,    \* "running", "some", "none", "panic", "idle"
    result,     \* the Path returned by the outermost call
    lastCall,   \* the call of from_src that returned most recently
    fn          \* one call of GenericArgs::from_fn_like_path_ast

vars == <<nodes, groups, hygiene, stack, ret, outcome, result, lastCall, fn>>

None == <<>>
Some(x) == <<x>>

Reverse(s) == IF s = <<>> THEN <<>> ELSE [i \in 1..Len(s) |-> s[Len(s) + 1 - i]]

Last(s) == s[Len(s)]

Front(s) == SubSeq(s, 1, Len(s) - 1)

-----------------------------------------------------------------------------
(* TypeRef, the lowered form of a type.                                    *)

NoTy == [tag |-> "None", id |-> 0, elems |-> <<>>]

TypeRef_Error == [tag |-> "Error", id |-> 0, elems |-> <<>>]

TypeRef_Tuple(tys) == [tag |-> "Tuple", id |-> 0, elems |-> tys]

TypeRef_from_ast(t) == [tag |-> "Path", id |-> t, elems |-> <<>>]

TypeRef_from_ast_opt(t) == IF t = None THEN TypeRef_Error ELSE TypeRef_from_ast(t[1])

-----------------------------------------------------------------------------
(* Names.  A name reference carries its text; `$crate` is one text.        *)

DollarCrateText == 77

\* name::OUTPUT_TYPE, the name of the binding of a function-sugar return type
OUTPUT_TYPE == 99

AsName(text) == text

Hygiene_new_unhygienic == None

name_ref_to_name(hyg, text) ==
    IF hyg # None /\ text = DollarCrateText
    THEN [left |-> FALSE, name |-> 0, crate |-> hyg[1]]
    ELSE [left |-> TRUE, name |-> AsName(text), crate |-> 0]

-----------------------------------------------------------------------------
(* GenericArgs                                                             *)

GenericArgs_empty == [args |-> <<>>, has_self_type |-> FALSE, bindings |-> <<>>]

RECURSIVE AssocBindings(_)
AssocBindings(assoc) ==
    IF assoc = <<>> THEN <<>>
    ELSE LET a == Head(assoc)
         IN (IF a.name_ref # None
             THEN <<[name |-> AsName(a.name_ref[1]),
                     ty |-> TypeRef_from_ast_opt(a.type_ref)]>>
             ELSE <<>>) \o AssocBindings(Tail(assoc))

GenericArgs_from_ast(node) ==
    LET args == IF node.type_args = <<>> THEN <<>>
                ELSE [i \in 1..Len(node.type_args) |->
                         TypeRef_from_ast_opt(node.type_args[i])]
        bindings == AssocBindings(node.assoc_type_args)
    IN IF args = <<>> /\ bindings = <<>>
       THEN None
       ELSE Some([args |-> args, has_self_type |-> FALSE, bindings |-> bindings])

FnLikeArgsAlways(params, ret_type) ==
    LET param_types == IF params = None \/ params[1] = <<>> THEN <<>>
                       ELSE [i \in 1..Len(params[1]) |->
                                TypeRef_from_ast_opt(params[1][i])]
        args == <<TypeRef_Tuple(param_types)>>
        bindings == IF ret_type # None
                    THEN <<[name |-> OUTPUT_TYPE,
                            ty |-> TypeRef_from_ast_opt(ret_type[1])]>>
                    ELSE <<>>
    IN Some([args |-> args, has_self_type |-> FALSE, bindings |-> bindings])

from_fn_like_path_ast(params, ret_type) ==
    LET param_types == IF params = None \/ params[1] = <<>> THEN <<>>
                       ELSE [i \in 1..Len(params[1]) |->
                                TypeRef_from_ast_opt(params[1][i])]
        args == IF params # None THEN <<TypeRef_Tuple(param_types)>> ELSE <<>>
        bindings == IF ret_type # None
                    THEN <<[name |-> OUTPUT_TYPE,
                            ty |-> TypeRef_from_ast_opt(ret_type[1])]>>
                    ELSE <<>>
    IN IF args = <<>> /\ bindings = <<>>
       THEN None
       ELSE Some([args |-> args, has_self_type |-> FALSE, bindings |-> bindings])

\* segment.type_arg_list().and_then(from_ast).or_else(|| from_fn_like_path_ast(..))
SegmentArgs(nd) ==
    LET explicit == IF nd.typeArgList # None
                    THEN GenericArgs_from_ast(nd.typeArgList[1])
                    ELSE None
    IN IF explicit # None THEN explicit
       ELSE from_fn_like_path_ast(nd.paramList, nd.retType)

-----------------------------------------------------------------------------
(* The inputs of one call of from_fn_like_path_ast.                        *)

OptTypes == {None} \cup {Some(t) : t \in 1..MaxType}

SeqsUpTo(S, n) == UNION {[1..k -> S] : k \in 0..n}

ParamLists == {None} \cup {Some(ps) : ps \in SeqsUpTo(OptTypes, MaxParams)}

RetTypes == {None} \cup {Some(t) : t \in OptTypes}

FnIdle == [pc |-> "idle", params |-> None, ret_type |-> None, result |-> None]

-----------------------------------------------------------------------------
(* PathKind, PathSegment, Path                                             *)

Kind(tag) == [tag |-> tag, ty |-> NoTy, crate |-> 0]

Plain == Kind("Plain")

Abs == Kind("Abs")

KindType(ty) == [tag |-> "Type", ty |-> ty, crate |-> 0]

KindDollarCrate(c) == [tag |-> "DollarCrate", ty |-> NoTy, crate |-> c]

PathSegment(name, args) == [name |-> name, args_and_bindings |-> args]

EmptyPath == [kind |-> Plain, segments |-> <<>>]

SegmentNames(segs) == IF segs = <<>> THEN <<>> ELSE [i \in 1..Len(segs) |-> segs[i].name]

\* segments.reverse(); return Some(Path { kind, segments })
FinalPathUnreversed(kind, segments) == [kind |-> kind, segments |-> segments]

FinalPath(kind, segments) == [kind |-> kind, segments |-> Reverse(segments)]

is_ident(p) == p.kind = Plain /\ Len(p.segments) = 1

is_self(p) == p.kind = Kind("Self_") /\ p.segments = <<>>

as_ident(p) ==
    IF p.kind # Plain \/ Len(p.segments) > 1 THEN None
    ELSE IF p.segments = <<>> THEN None ELSE Some(p.segments[1].name)

-----------------------------------------------------------------------------
(* The syntax tree.  A path node that has not been read yet is known only  *)
(* to exist, with the use level it lies in.                                *)

Fresh(l) ==
    [revealed |-> FALSE, kind |-> "?", colon |-> FALSE, text |-> 0,
     typeArgList |-> None, paramList |-> None, retType |-> None,
     typeRef |-> None, trait |-> 0, qual |-> 0, lvl |-> l]

BareName ==
    [kind |-> "Name", colon |-> FALSE, dollar |-> FALSE,
     typeArgList |-> None, paramList |-> None, retType |-> None,
     hasTypeRef |-> FALSE, trait |-> "none", hasQual |-> FALSE]

\* `<A, B, N = A>`
SomeTypeArgs ==
    [type_args |-> <<Some(1), Some(2)>>,
     assoc_type_args |-> <<[name_ref |-> Some(50), type_ref |-> Some(1)]>>]

NameForms ==
    {[f EXCEPT !.hasQual = q] :
        f \in {BareName,
               [BareName EXCEPT !.colon = TRUE],
               [BareName EXCEPT !.typeArgList = Some(SomeTypeArgs)],
               [BareName EXCEPT !.paramList = Some(<<Some(1)>>), !.retType = Some(Some(2))]},
        q \in BOOLEAN}

DollarForms == {[BareName EXCEPT !.dollar = TRUE, !.hasQual = q] : q \in BOOLEAN}

TypeForms ==
    {[BareName EXCEPT !.kind = "Type", !.hasQual = TRUE],
     [BareName EXCEPT !.kind = "Type"]}
    \cup {[BareName EXCEPT !.kind = "Type", !.hasTypeRef = TRUE, !.trait = t] :
             t \in {"none", "nopath", "path"}}

KeywordForms ==
    {[BareName EXCEPT !.kind = k, !.hasQual = q] :
        k \in {"CrateKw", "SelfKw", "SuperKw"}, q \in BOOLEAN}

BrokenForms == {[BareName EXCEPT !.kind = k] : k \in {"NoSegment", "NoKind"}}

NodeForms == NameForms \cup DollarForms \cup TypeForms \cup KeywordForms \cup BrokenForms

\* the path nodes a form brings with it: its qualifier, its trait's path
FormCost(form) ==
    (IF form.hasQual THEN 1 ELSE 0) + (IF form.trait = "path" THEN 1 ELSE 0)

\* Node n is read for the first time and turns out to be of the given form.
Reveal(ns, n, form) ==
    LET withQ == IF form.hasQual THEN Append(ns, Fresh(ns[n].lvl)) ELSE ns
        qid == IF form.hasQual THEN Len(ns) + 1 ELSE 0
        withT == IF form.trait = "path" THEN Append(withQ, Fresh(ns[n].lvl)) ELSE withQ
        tid == IF form.trait = "path" THEN Len(withQ) + 1
               ELSE IF form.trait = "nopath" THEN -1 ELSE 0
    IN [withT EXCEPT ![n] =
          [revealed |-> TRUE, kind |-> form.kind, colon |-> form.colon,
           text |-> IF form.dollar THEN DollarCrateText ELSE n,
           typeArgList |-> form.typeArgList, paramList |-> form.paramList,
           retType |-> form.retType,
           typeRef |-> IF form.hasTypeRef THEN Some(10 + n) ELSE None,
           trait |-> tid, qual |-> qid, lvl |-> ns[n].lvl]]

-----------------------------------------------------------------------------
(* One call of from_src: its locals, and what it has read.                 *)

NewFrame(n) ==
    [start |-> n, path |-> n, kind |-> Plain, segments |-> <<>>,
     self_type |-> NoTy,
     visited |-> <<>>,      \* the nodes the loop of this call has read
     deep |-> <<>>,         \* those, and the ones its recursive calls have read
     kindBy |-> 0,          \* the node at which kind was last assigned
     trait |-> None]        \* the last trait-qualified node lowered, and how

NoCall ==
    [valid |-> FALSE, start |-> 0, visited |-> <<>>, deep |-> <<>>,
     some |-> FALSE, path |-> EmptyPath, kindBy |-> 0, trait |-> None]

Top == stack[Len(stack)]

Running == outcome = "running" /\ stack # <<>> /\ ret = None

\* The syntax tree as the loop sees it once it has read the current node.
Views ==
    IF nodes[Top.path].revealed THEN {nodes}
    ELSE {Reveal(nodes, Top.path, form) :
            form \in {f \in NodeForms : Len(nodes) + FormCost(f) <= MaxNodes}}

\* path.segment()? succeeded: the node is read, has_colon_colon is looked at
Enter(f, nd) ==
    [f EXCEPT !.visited = Append(@, f.path), !.deep = Append(@, f.path),
              !.kind = IF nd.colon THEN Abs ELSE @,
              !.kindBy = IF nd.colon THEN f.path ELSE @]

\* The tree and the use groups once qualifier() has searched the ancestors of n.
GroupViews(ns, n) ==
    IF ns[n].qual # 0 \/ ns[n].lvl <= Len(groups) THEN {<<ns, groups>>}
    ELSE {<<ns, Append(groups, 0)>>, <<ns, Append(groups, -1)>>}
         \cup (IF Len(ns) < MaxNodes
               THEN {<<Append(ns, Fresh(ns[n].lvl + 1)), Append(groups, Len(ns) + 1)>>}
               ELSE {})

qualifierStuck(ns, gs, n) == Some(n)

qualifierExplicitOnly(ns, gs, n) ==
    IF ns[n].qual # 0 THEN Some(ns[n].qual) ELSE None

\* fn qualifier(path): the explicit qualifier, else the path of the use tree
\* that owns the nearest enclosing use-tree list
qualifier(ns, gs, n) ==
    IF ns[n].qual # 0 THEN Some(ns[n].qual)
    ELSE IF gs[ns[n].lvl] = 0 THEN None          \* no UseTreeList ancestor
    ELSE IF gs[ns[n].lvl] = -1 THEN None         \* use_tree.path() is None
    ELSE Some(gs[ns[n].lvl])

\* A call returns r; the caller, if any, finds it in ret.
Return(ns, gs, f, isSome, p) ==
    /\ nodes' = ns
    /\ groups' = gs
    /\ lastCall' = [valid |-> TRUE, start |-> f.start, visited |-> f.visited,
                    deep |-> f.deep, some |-> isSome, path |-> p,
                    kindBy |-> f.kindBy, trait |-> f.trait]
    /\ stack' = Front(stack)
    /\ IF Len(stack) = 1
       THEN /\ outcome' = IF isSome THEN "some" ELSE "none"
            /\ result' = p
            /\ ret' = None
       ELSE /\ ret' = Some([some |-> isSome, path |-> p, deep |-> f.deep])
            /\ UNCHANGED <<outcome, result>>
    /\ UNCHANGED <<hygiene, fn>>

ReturnNone(ns, f) == Return(ns, groups, f, FALSE, EmptyPath)

\* break; segments.reverse(); return Some(Path { kind, segments })
Break(ns, f) == Return(ns, groups, f, TRUE, FinalPath(f.kind, f.segments))

\* path = match qualifier(&path) { Some(it) => it, None => break }
LoopTail(ns, f) ==
    \E v \in GroupViews(ns, f.path) :
        LET q == qualifier(v[1], v[2], f.path)
        IN IF q = None
           THEN Return(v[1], v[2], f, TRUE, FinalPath(f.kind, f.segments))
           ELSE /\ nodes' = v[1]
                /\ groups' = v[2]
                /\ stack' = [stack EXCEPT ![Len(stack)] = [f EXCEPT !.path = q[1]]]
                /\ ret' = None
                /\ UNCHANGED <<hygiene, outcome, result, lastCall, fn>>

-----------------------------------------------------------------------------
(* The loop body of from_src, one action per way through it.               *)

\* let segment = path.segment()?;   -- the node has no segment
NoSegment ==
    /\ Running
    /\ \E ns \in Views :
         LET f == Top
             nd == ns[f.path]
         IN /\ nd.kind = "NoSegment"
            /\ ReturnNone(ns, [f EXCEPT !.visited = Append(@, f.path),
                                        !.deep = Append(@, f.path)])

NoKindBreaks ==
    /\ Running
    /\ \E ns \in Views :
         LET f == Top
             nd == ns[f.path]
         IN /\ nd.kind = "NoKind"
            /\ Break(ns, Enter(f, nd))

\* match segment.kind()? -- the segment's kind cannot be told
NoKind ==
    /\ Running
    /\ \E ns \in Views :
         LET f == Top
             nd == ns[f.path]
         IN /\ nd.kind = "NoKind"
            /\ ReturnNone(ns, Enter(f, nd))

\* segments.push(PathSegment { name, args_and_bindings: args })
PushNamedSegment(segments, name, args) == Append(segments, PathSegment(name, args))

\* PathSegmentKind::Name, hygiene gives Either::Left(name)
NameSegment ==
    /\ Running
    /\ \E ns \in Views :
         LET f == Top
             nd == ns[f.path]
             e == Enter(f, nd)
             name == name_ref_to_name(hygiene, nd.text)
         IN /\ nd.kind = "Name"
            /\ name.left
            /\ LoopTail(ns, [e EXCEPT !.segments =
                                 PushNamedSegment(@, name.name, SegmentArgs(nd))])

DollarCrateKeepsKind(f, n, crate_id) == f

\* kind = PathKind::DollarCrate(crate_id);
DollarCrateKind(f, n, crate_id) ==
    [f EXCEPT !.kind = KindDollarCrate(crate_id), !.kindBy = n]

\* PathSegmentKind::Name, hygiene gives Either::Right(crate_id)
DollarCrate ==
    /\ Running
    /\ \E ns \in Views :
         LET f == Top
             nd == ns[f.path]
             e == Enter(f, nd)
             name == name_ref_to_name(hygiene, nd.text)
         IN /\ nd.kind = "Name"
            /\ ~name.left
            /\ Break(ns, DollarCrateKind(e, f.path, name.crate))

\* PathSegmentKind::Type on a node with a qualifier: the assertion fails
TypeQualified ==
    /\ Running
    /\ \E ns \in Views :
         LET f == Top
             nd == ns[f.path]
         IN /\ nd.kind = "Type"
            /\ nd.qual # 0
            /\ nodes' = ns
            /\ stack' = <<>>
            /\ outcome' = "panic"
            /\ UNCHANGED <<groups, hygiene, ret, result, lastCall, fn>>

\* TypeRef::from_ast(type_ref?) -- the segment has no type
TypeNoTypeRef ==
    /\ Running
    /\ \E ns \in Views :
         LET f == Top
             nd == ns[f.path]
         IN /\ nd.kind = "Type"
            /\ nd.qual = 0
            /\ nd.typeRef = None
            /\ ReturnNone(ns, Enter(f, nd))

\* <T>::foo
TypeOnly ==
    /\ Running
    /\ \E ns \in Views :
         LET f == Top
             nd == ns[f.path]
             e == Enter(f, nd)
         IN /\ nd.kind = "Type"
            /\ nd.qual = 0
            /\ nd.typeRef # None
            /\ nd.trait = 0
            /\ LoopTail(ns, [e EXCEPT !.kind = KindType(TypeRef_from_ast(nd.typeRef[1])),
                                      !.kindBy = f.path])

\* <T as Trait>::foo, trait_ref.path()? is None
TraitNoPath ==
    /\ Running
    /\ \E ns \in Views :
         LET f == Top
             nd == ns[f.path]
         IN /\ nd.kind = "Type"
            /\ nd.qual = 0
            /\ nd.typeRef # None
            /\ nd.trait = -1
            /\ ReturnNone(ns, Enter(f, nd))

\* <T as Trait>::foo: Path::from_src(trait_ref.path()?, hygiene) is called
TraitCall ==
    /\ Running
    /\ \E ns \in Views :
         LET f == Top
             nd == ns[f.path]
             e == Enter(f, nd)
         IN /\ nd.kind = "Type"
            /\ nd.qual = 0
            /\ nd.typeRef # None
            /\ nd.trait > 0
            /\ nodes' = ns
            /\ stack' = Append([stack EXCEPT ![Len(stack)] =
                                   [e EXCEPT !.self_type = TypeRef_from_ast(nd.typeRef[1])]],
                               NewFrame(nd.trait))
            /\ UNCHANGED <<groups, hygiene, ret, outcome, result, lastCall, fn>>

ExtendPrefixAsReturned(segments, prefix_segments) == segments \o prefix_segments

\* prefix_segments.reverse(); segments.extend(prefix_segments);
ExtendPrefix(segments, prefix_segments) == segments \o Reverse(prefix_segments)

\* last_segment = segments.last_mut()?; ... has_self_type = true;
\* args.insert(0, GenericArg::Type(self_type))
SpliceSelfType(segments, self_type) ==
    LET last_segment == segments[Len(segments)]
        args == IF last_segment.args_and_bindings = None
                THEN GenericArgs_empty
                ELSE last_segment.args_and_bindings[1]
        args_inner == [args EXCEPT !.has_self_type = TRUE, !.args = <<self_type>> \o @]
    IN [segments EXCEPT ![Len(segments)] =
          [last_segment EXCEPT !.args_and_bindings = Some(args_inner)]]

\* the recursive call has returned: `?`, kind = path.kind, the prefix, the Self type
TraitReturn ==
    /\ outcome = "running"
    /\ stack # <<>>
    /\ ret # None
    /\ LET f == Top
           r == ret[1]
           g == [f EXCEPT !.deep = @ \o r.deep]
           segments == ExtendPrefix(f.segments, r.path.segments)
       IN IF ~r.some
          THEN ReturnNone(nodes, g)
          ELSE IF segments = <<>>
          THEN ReturnNone(nodes, [g EXCEPT !.kind = r.path.kind, !.kindBy = f.path])
          ELSE LoopTail(nodes,
                  [g EXCEPT !.kind = r.path.kind,
                            !.kindBy = f.path,
                            !.segments = SpliceSelfType(segments, f.self_type),
                            !.trait = Some([node |-> f.path, sub |-> r.path,
                                            own |-> Len(f.segments)])])

\* PathSegmentKind::CrateKw
CrateKw ==
    /\ Running
    /\ \E ns \in Views :
         LET f == Top
             nd == ns[f.path]
             e == Enter(f, nd)
         IN /\ nd.kind = "CrateKw"
            /\ Break(ns, [e EXCEPT !.kind = Kind("Crate"), !.kindBy = f.path])

\* PathSegmentKind::SelfKw
SelfKw ==
    /\ Running
    /\ \E ns \in Views :
         LET f == Top
             nd == ns[f.path]
             e == Enter(f, nd)
         IN /\ nd.kind = "SelfKw"
            /\ Break(ns, [e EXCEPT !.kind = Kind("Self_"), !.kindBy = f.path])

\* PathSegmentKind::SuperKw
SuperKw ==
    /\ Running
    /\ \E ns \in Views :
         LET f == Top
             nd == ns[f.path]
             e == Enter(f, nd)
         IN /\ nd.kind = "SuperKw"
            /\ Break(ns, [e EXCEPT !.kind = Kind("Super"), !.kindBy = f.path])

-----------------------------------------------------------------------------
(* Path::from_src(path, hygiene) on the node 1 of some syntax tree;        *)
(* Path::from_ast(path) is the call with Hygiene::new_unhygienic().        *)

CrateIds == {3}

Hygienes == {Hygiene_new_unhygienic} \cup {Some(c) : c \in CrateIds}

Init ==
    /\ nodes = <<Fresh(1)>>
    /\ groups = <<>>
    /\ hygiene \in Hygienes
    /\ stack = <<NewFrame(1)>>
    /\ ret = None
    /\ outcome = "running"
    /\ result = EmptyPath
    /\ lastCall = NoCall
    /\ fn = FnIdle

Next ==
    \/ NoSegment
    \/ NoKind
    \/ NameSegment
    \/ DollarCrate
    \/ TypeQualified
    \/ TypeNoTypeRef
    \/ TypeOnly
    \/ TraitNoPath
    \/ TraitCall
    \/ TraitReturn
    \/ CrateKw
    \/ SelfKw
    \/ SuperKw

Spec == Init /\ [][Next]_vars

-----------------------------------------------------------------------------
(* GenericArgs::from_fn_like_path_ast(params, ret_type) on its own.        *)

InitFn ==
    /\ nodes = <<Fresh(1)>>
    /\ groups = <<>>
    /\ hygiene = Hygiene_new_unhygienic
    /\ stack = <<>>
    /\ ret = None
    /\ outcome = "idle"
    /\ result = EmptyPath
    /\ lastCall = NoCall
    /\ \E ps \in ParamLists, rt \in RetTypes :
          fn = [pc |-> "call", params |-> ps, ret_type |-> rt, result |-> None]

FnLikeCall ==
    /\ fn.pc = "call"
    /\ fn' = [fn EXCEPT !.pc = "done",
                        !.result = from_fn_like_path_ast(fn.params, fn.ret_type)]
    /\ UNCHANGED <<nodes, groups, hygiene, stack, ret, outcome, result, lastCall>>

NextFn == FnLikeCall

SpecFn == InitFn /\ [][NextFn]_vars

-----------------------------------------------------------------------------
(* What the properties speak of.                                           *)

NodeName(n) == AsName(nodes[n].text)

NodeNames(ids) == IF ids = <<>> THEN <<>> ELSE [i \in 1..Len(ids) |-> NodeName(ids[i])]

\* an ordinary-name node that the hygiene resolves to an identifier
OrdinaryName(n) ==
    /\ nodes[n].kind = "Name"
    /\ ~(hygiene # None /\ nodes[n].text = DollarCrateText)

\* an ordinary-name node that the hygiene resolves to a crate, the `$crate` marker
Marker(n) ==
    /\ nodes[n].kind = "Name"
    /\ hygiene # None /\ nodes[n].text = DollarCrateText

AllOrdinary(ids) == \A i \in 1..Len(ids) : OrdinaryName(ids[i])

\* the node carries no `<..>`, no `(..)` and no `-> ..`
BareIdent(n) ==
    /\ nodes[n].typeArgList = None
    /\ nodes[n].paramList = None
    /\ nodes[n].retType = None

\* every step of the call went to the explicit qualifier, and the last node has none
ExplicitChain(ids) ==
    /\ ids # <<>>
    /\ \A i \in 1..(Len(ids) - 1) : nodes[ids[i]].qual = ids[i + 1]
    /\ nodes[Last(ids)].qual = 0

\* the path the call lowered: ordinary names only, explicit qualifiers only, no `::`
PlainChain(c) ==
    /\ c.valid
    /\ ExplicitChain(c.visited)
    /\ AllOrdinary(c.visited)
    /\ \A i \in 1..Len(c.visited) : ~nodes[c.visited[i]].colon

PlainChainResult(c) ==
    /\ c.some
    /\ c.path.kind = Plain
    /\ Len(c.path.segments) = Len(c.visited)
    /\ SegmentNames(c.path.segments) = Reverse(NodeNames(c.visited))
    /\ Len(c.visited) = 1 =>
          /\ is_ident(c.path)
          /\ as_ident(c.path) = Some(NodeName(c.visited[1]))

\* C1: a path of n >= 1 ordinary-name nodes linked by explicit qualifiers, with no
\* `::` marker and every name an identifier, lowers to Some path of kind Plain
\* whose n segments are the node names root-first; for n = 1 the segment of a
\* bare identifier has no generic arguments, is_ident() holds and as_ident()
\* returns the name.
C1_PlainPath ==
    PlainChain(lastCall) =>
        /\ PlainChainResult(lastCall)
        /\ (Len(lastCall.visited) = 1 /\ BareIdent(lastCall.visited[1])) =>
              lastCall.path.segments[1].args_and_bindings = None

C1_Witness ==
    /\ PlainChain(lastCall)
    /\ Len(lastCall.visited) = 3
    /\ outcome = "some"
    /\ SegmentNames(result.segments) = <<3, 2, 1>>

-----------------------------------------------------------------------------
(* Trait-qualified paths, <T as Trait>::Item.  In the returned path the    *)
(* trait's sub-path P sits before the `own` segments the call had pushed   *)
(* when it reached the type-relative node.                                 *)

\* index, in the returned path, of the leaf segment of the trait's sub-path
TraitLeafIndex(c) == Len(c.path.segments) - c.trait[1].own

\* index, in the returned path, of the i-th segment of the trait's sub-path
TraitIndex(c, i) == TraitLeafIndex(c) - Len(c.trait[1].sub.segments) + i

WrittenArgs(seg) ==
    IF seg.args_and_bindings = None THEN <<>> ELSE seg.args_and_bindings[1].args

\* C2: in <T as TraitPath>::Item the Self type T is spliced into the leaf segment
\* of the trait's path, whatever the number of its segments: that segment has
\* has_self_type, T as args[0] and then the written arguments in order; every
\* other segment of the trait's path keeps the arguments its syntax produced.
C2_SelfTypeInTraitLeaf ==
    (/\ lastCall.valid /\ lastCall.some /\ lastCall.trait # None
     /\ lastCall.trait[1].sub.segments # <<>>) =>
        LET t == lastCall.trait[1]
            P == t.sub.segments
            leaf == lastCall.path.segments[TraitLeafIndex(lastCall)]
        IN /\ leaf.args_and_bindings # None
           /\ leaf.args_and_bindings[1].has_self_type
           /\ leaf.args_and_bindings[1].args =
                  <<TypeRef_from_ast(nodes[t.node].typeRef[1])>> \o WrittenArgs(Last(P))
           /\ \A i \in 1..(Len(P) - 1) :
                  lastCall.path.segments[TraitIndex(lastCall, i)] = P[i]

\* the type-relative node was the last node the call read, with no use-tree list
\* around it, and the nodes before it were ordinary names
TraitAtRoot(c) ==
    /\ c.valid /\ c.some /\ c.trait # None
    /\ Last(c.visited) = c.trait[1].node
    /\ groups[nodes[c.trait[1].node].lvl] = 0
    /\ AllOrdinary(Front(c.visited))

\* C3: for a trait-qualified path whose type-relative node is the root of the
\* walk, with P the lowered path of the trait, the result has P's kind and its
\* segments are P's, root-first, followed by the outer path's own, root-first.
C3_TraitPrefix ==
    TraitAtRoot(lastCall) =>
        LET P == lastCall.trait[1].sub
        IN /\ lastCall.path.kind = P.kind
           /\ SegmentNames(lastCall.path.segments) =
                  SegmentNames(P.segments) \o Reverse(NodeNames(Front(lastCall.visited)))

\* `<T as a::Trait>::Item::Sub` with an absolute `::Sub`: [a, Trait, Item, Sub]
C3_Witness ==
    /\ TraitAtRoot(lastCall)
    /\ outcome = "some"
    /\ Len(lastCall.trait[1].sub.segments) = 2
    /\ Len(lastCall.visited) = 2
    /\ nodes[lastCall.visited[1]].colon
    /\ result.kind = Plain

-----------------------------------------------------------------------------
(* The `$crate` marker.                                                    *)

ReachedMarker(c) == c.valid /\ \E i \in 1..Len(c.visited) : Marker(c.visited[i])

\* C4: a call of from_src whose walk reaches a name that the hygiene resolves to
\* crate c ends there: it returns Some, of kind DollarCrate(c) whatever kind was
\* set before, the marker is the last node read and gives no segment, the node
\* above it is never read, and the segments are those of the nodes read before,
\* root-first.  Without hygiene (from_ast) no returned path is DollarCrate.
C4_DollarCrate ==
    /\ ReachedMarker(lastCall) =>
          LET m == Last(lastCall.visited)
          IN /\ Marker(m)
             /\ \A i \in 1..(Len(lastCall.visited) - 1) : ~Marker(lastCall.visited[i])
             /\ lastCall.some
             /\ lastCall.path.kind = KindDollarCrate(hygiene[1])
             /\ nodes[m].qual # 0 => ~nodes[nodes[m].qual].revealed
             /\ \A i \in 1..Len(lastCall.path.segments) :
                    lastCall.path.segments[i].name # AsName(DollarCrateText)
             /\ AllOrdinary(Front(lastCall.visited)) =>
                    /\ SegmentNames(lastCall.path.segments) =
                           Reverse(NodeNames(Front(lastCall.visited)))
                    /\ \A i \in 1..Len(lastCall.path.segments) :
                           lastCall.path.segments[i].args_and_bindings =
                              SegmentArgs(nodes[lastCall.visited[Len(lastCall.visited) - i]])
    /\ hygiene = Hygiene_new_unhygienic =>
          /\ lastCall.path.kind.tag # "DollarCrate"
          /\ result.kind.tag # "DollarCrate"
          /\ \A i \in 1..Len(stack) : stack[i].kind.tag # "DollarCrate"

\* `$crate::b::c` with an absolute-looking leaf, and a qualifier above the marker
C4_Witness ==
    /\ ReachedMarker(lastCall)
    /\ outcome = "some"
    /\ Len(lastCall.visited) = 3
    /\ nodes[lastCall.visited[1]].colon
    /\ nodes[Last(lastCall.visited)].qual # 0
    /\ Len(result.segments) = 2

-----------------------------------------------------------------------------
(* Absence.                                                                *)

Broken(n) == nodes[n].kind \in {"NoSegment", "NoKind"}

\* C5: a call of from_src that reads a node without a segment, or with a segment
\* whose kind cannot be told, itself or in the lowering of a trait's path,
\* returns None, whatever it has accumulated.
C5_AbsencePropagates ==
    /\ (lastCall.valid /\ \E i \in 1..Len(lastCall.deep) : Broken(lastCall.deep[i])) =>
          ~lastCall.some
    /\ (\E n \in 1..Len(nodes) : nodes[n].revealed /\ Broken(n)) =>
          outcome \in {"running", "none"}

\* the broken node lies in the trait's path, below two segments already pushed
C5_Witness ==
    /\ outcome = "none"
    /\ Len(lastCall.visited) = 3
    /\ Len(lastCall.deep) = 4
    /\ Broken(Last(lastCall.deep))

-----------------------------------------------------------------------------
(* Grouped imports.                                                        *)

\* where the walk has to go from node n: the explicit qualifier if there is one,
\* else the path of the use tree owning the nearest enclosing use-tree list
Above(n) ==
    IF nodes[n].qual # 0 THEN nodes[n].qual
    ELSE IF nodes[n].lvl <= Len(groups) /\ groups[nodes[n].lvl] > 0
         THEN groups[nodes[n].lvl]
         ELSE 0

FollowsQualifiers(ids) == \A i \in 1..(Len(ids) - 1) : ids[i + 1] = Above(ids[i])

\* the names of a written path, root-first
RECURSIVE OwnNames(_)
OwnNames(n) ==
    (IF nodes[n].qual # 0 THEN OwnNames(nodes[n].qual) ELSE <<>>) \o <<NodeName(n)>>

\* the prefixes of the groups around use level l, outermost first
RECURSIVE GroupPrefix(_)
GroupPrefix(l) ==
    IF l > Len(groups) \/ groups[l] <= 0 THEN <<>>
    ELSE GroupPrefix(l + 1) \o OwnNames(groups[l])

\* C6: every step of the walk goes to the explicit qualifier of the node when it
\* has one, and only otherwise to the path of the use tree owning the nearest
\* enclosing use-tree list; so a leaf of ordinary names inside groups lowers to
\* the groups' prefixes, outermost first, followed by its own segments; with
\* neither qualifier the walk stops and returns what it has accumulated.
C6_ImplicitQualifier ==
    /\ \A i \in 1..Len(stack) : FollowsQualifiers(stack[i].visited)
    /\ \A i \in 1..Len(stack) :
          (stack[i].visited # <<>> /\ stack[i].path # Last(stack[i].visited)) =>
              stack[i].path = Above(Last(stack[i].visited))
    /\ lastCall.valid => FollowsQualifiers(lastCall.visited)
    /\ (lastCall.valid /\ AllOrdinary(lastCall.visited)) =>
          /\ lastCall.some
          /\ Above(Last(lastCall.visited)) = 0
          /\ SegmentNames(lastCall.path.segments) =
                 GroupPrefix(nodes[lastCall.start].lvl) \o OwnNames(lastCall.start)

\* `use a::{b::{c}}`, lowering c
C6_Witness ==
    /\ outcome = "some"
    /\ AllOrdinary(lastCall.visited)
    /\ Len(groups) = 3
    /\ groups[1] > 0 /\ groups[2] > 0
    /\ SegmentNames(result.segments) = <<3, 2, 1>>

-----------------------------------------------------------------------------
(* Type-relative and keyword roots.                                        *)

\* a node of kind `<T>` or `<T as Trait>` is the last one a call reads
TypeNodeIsLast(ids) == \A i \in 1..(Len(ids) - 1) : nodes[ids[i]].kind # "Type"

\* C8: a type-relative segment ends the walk: once a call has processed a node
\* `<T>` or `<T as Trait>` it reads no further node, adds no segment and keeps
\* the kind, also inside a use-tree list whose use tree has a path; so `<T>::foo`
\* is Type(T) with the one segment foo.
C8_TypeRelativeEndsWalk ==
    /\ \A i \in 1..Len(stack) : TypeNodeIsLast(stack[i].visited)
    /\ lastCall.valid => TypeNodeIsLast(lastCall.visited)
    /\ (/\ lastCall.valid /\ lastCall.some /\ Len(lastCall.visited) >= 2
        /\ nodes[lastCall.visited[2]].kind = "Type"
        /\ nodes[lastCall.visited[2]].trait = 0
        /\ OrdinaryName(lastCall.visited[1])) =>
          /\ lastCall.path.kind =
                 KindType(TypeRef_from_ast(nodes[lastCall.visited[2]].typeRef[1]))
          /\ SegmentNames(lastCall.path.segments) = <<NodeName(lastCall.visited[1])>>

\* C9: a returned path of kind Self_, Super, Crate or Type(_) got that kind from
\* a node without a qualifier; a keyword or type-relative segment on a node that
\* has a qualifier never yields a returned path.
C9_RootKindHasNoQualifier ==
    (/\ lastCall.valid /\ lastCall.some
     /\ lastCall.path.kind.tag \in {"Self_", "Super", "Crate", "Type"}) =>
        /\ lastCall.kindBy # 0
        /\ nodes[lastCall.kindBy].qual = 0

-----------------------------------------------------------------------------
(* Termination.                                                            *)

NoRepeat(ids) == \A i, j \in 1..Len(ids) : ids[i] = ids[j] => i = j

RECURSIVE NodesRead(_)
\* how many nodes the first i calls in progress have read, recursive calls included
NodesRead(i) == IF i = 0 THEN 0 ELSE Len(stack[i].deep) + NodesRead(i - 1)

\* A variant of the walk: the nodes read so far, then the calls that have
\* returned, then the returned value taken over by the caller.
Variant ==
    LET read == IF stack = <<>> THEN Len(lastCall.deep)
                ELSE NodesRead(Len(stack)) + (IF ret = None THEN 0 ELSE Len(ret[1].deep))
    IN 3 * read - 2 * Len(stack) + (IF ret = None THEN 1 ELSE 0)

WalkShape ==
    /\ \A i \in 1..Len(stack) :
          /\ NoRepeat(stack[i].visited)
          /\ Len(stack[i].visited) <= Len(nodes)
          /\ \A j \in 1..Len(stack[i].visited) : stack[i].path # stack[i].visited[j]
                 \/ (j = Len(stack[i].visited) /\ i < Len(stack))
                 \/ (j = Len(stack[i].visited) /\ ret # None)
    /\ lastCall.valid => NoRepeat(lastCall.visited)
    /\ Len(stack) <= Len(nodes)
    /\ NoRepeat([i \in 1..Len(stack) |-> stack[i].start])
    /\ outcome \in {"running", "some", "none", "panic"}
    /\ outcome = "running" => ENABLED Next
    /\ outcome # "running" => stack = <<>>

\* C10: in one call every step of the walk reaches a node the call has not read
\* before, so a call reads at most as many nodes as the tree has; the calls in
\* progress are nested trait paths, at most as many as the tree has nodes; a
\* call that has not returned, returned None or failed its assertion can step;
\* and every step either fails the assertion or raises the variant, so no run
\* of the walk over a finite tree goes on for ever.
C10_Terminates ==
    /\ []WalkShape
    /\ [][outcome' = "panic" \/ Variant' > Variant]_vars

\* a walk over three nodes, one of them trait-qualified, that returned
C10_Witness ==
    /\ outcome = "some"
    /\ Len(lastCall.visited) = 3
    /\ Len(lastCall.deep) = 4
    /\ Len(groups) = 2

-----------------------------------------------------------------------------
(* Function sugar, Fn(X, Y) -> Z.                                          *)

FnDone == fn.pc = "done"

NoParameters == fn.params = None \/ fn.params[1] = <<>>

\* the tuple of the parameter types, in declared order
IsParamTuple(ty) ==
    /\ ty.tag = "Tuple"
    /\ Len(ty.elems) = (IF fn.params = None THEN 0 ELSE Len(fn.params[1]))
    /\ \A i \in 1..Len(ty.elems) : ty.elems[i] = TypeRef_from_ast_opt(fn.params[1][i])

OutputBinding(bs) ==
    IF fn.ret_type = None THEN bs = <<>>
    ELSE /\ Len(bs) = 1
         /\ bs[1].name = OUTPUT_TYPE
         /\ bs[1].ty = TypeRef_from_ast_opt(fn.ret_type[1])

\* C7 as stated: from_fn_like_path_ast returns None when there are no parameters
\* (list absent, or present and empty) and no return type; otherwise exactly one
\* type argument, the tuple of the parameter types, plus the OUTPUT_TYPE binding
\* only if a return type is written, with has_self_type = false.
C7_NoneWithoutParameters ==
    FnDone =>
        IF NoParameters /\ fn.ret_type = None
        THEN fn.result = None
        ELSE /\ fn.result # None
             /\ ~fn.result[1].has_self_type
             /\ Len(fn.result[1].args) = 1
             /\ IsParamTuple(fn.result[1].args[1])
             /\ OutputBinding(fn.result[1].bindings)

\* C7 (amended): from_fn_like_path_ast returns None exactly when the parameter
\* list is absent and no return type is written; a parameter list that is
\* present, empty or not, gives exactly one type argument, the tuple of the
\* parameter types in declared order, an absent one gives no type argument; the
\* OUTPUT_TYPE binding is there only if a return type is written; has_self_type
\* is false.
C7_NoneWithoutParameterList ==
    FnDone =>
        IF fn.params = None /\ fn.ret_type = None
        THEN fn.result = None
        ELSE /\ fn.result # None
             /\ ~fn.result[1].has_self_type
             /\ IF fn.params = None
                THEN fn.result[1].args = <<>>
                ELSE /\ Len(fn.result[1].args) = 1
                     /\ IsParamTuple(fn.result[1].args[1])
             /\ OutputBinding(fn.result[1].bindings)

\* `Fn()`
C7_Witness ==
    /\ FnDone
    /\ fn.params = Some(<<>>)
    /\ fn.ret_type = None
    /\ fn.result = Some([args |-> <<TypeRef_Tuple(<<>>)>>, has_self_type |-> FALSE,
                         bindings |-> <<>>])

====
